---------------------------- MODULE Spec2Model ----------------------------
(***************************************************************************)
(* A model of the trade execution and position-lifecycle engine of the     *)
(* crypto trading bot: RiskManager (src/core/risk_engine.py), the order    *)
(* validation of BinanceAPI (src/core/exchange.py) and the trade path of   *)
(* TradingBot (src/main.py).                                               *)
(*                                                                         *)
(* Numbers.  Time is in seconds.  PnL percentages are whole percents.      *)
(* Quantities are integers in units of 10^-5 of the base asset (QtyScale   *)
(* units make one whole coin); prices and notionals are whole dollars, so  *)
(* a notional q * p is compared with a dollar amount d as                  *)
(* q * p  <  d * QtyScale.                                                 *)
(***************************************************************************)
EXTENDS Integers, Sequences, FiniteSets, TLC

VARIABLES
    now,            \* the wall clock, datetime.now() / time.time(), seconds
    risk,           \* the fields of the RiskManager instance
    call,           \* the outcome of the last RiskManager call (observation)
    recAt,          \* clock of the last record_trade call, None before any
    account_balance,    \* TradingBot.account_balance: the cached USDT balance
    open_positions,     \* TradingBot.open_positions: symbol -> position
    last_trade_time,    \* TradingBot.last_trade_time: symbol -> time stamp
    market_info,        \* BinanceAPI.market_info: the cached rules per symbol
    price,              \* the exchange: the ticker price per symbol, 0 = no price
    free,               \* the exchange: the free base-asset balance per symbol
    orders,             \* every order handed to client.create_order, in order
    trade,              \* the outcome of the last _execute_trade (observation)
    saved,              \* the file state/last_trades.json: symbol -> time stamp
    avg_entry,          \* the exchange: get_average_entry_price per symbol
    symbols,            \* TradingBot.symbols: the approved pairs, in order
    pc,                 \* TradingBot.run: the step of the cycle that runs next
    cursor,             \* _run_strategies: the index of the symbol processed next
    ticks,              \* the cycles of run completed
    prev,               \* open_positions before the last step (observation)
    removed,            \* symbols _validate_open_positions dropped at balance 0
    step,               \* what the last step of the cycle did (observation)
    attempt             \* the attempts a retried exchange call has made so far

riskVars == <<now, risk, call, recAt>>
botVars == <<account_balance, open_positions, last_trade_time, market_info,
             price, free, orders, trade, saved, avg_entry, symbols>>
tickVars == <<pc, cursor, ticks, prev, removed, step, attempt>>
vars == <<riskVars, botVars, tickVars>>

-----------------------------------------------------------------------------
(* Bounds of the model *)

MaxTrades == 4          \* record_trade calls explored
MaxOrders == 2          \* orders handed to the exchange that are explored
Horizon == 7200         \* seconds of clock explored after the start

(* Program constants *)

None == -1                      \* Python's None for a time stamp
DaySeconds == 86400             \* one calendar day
cooldown_period == 1800         \* timedelta(minutes=30)
max_daily_trades == 3           \* RiskManager.__init__ default
max_drawdown_pct100 == 5        \* max_drawdown (0.05) * 100
QtyScale == 100000              \* quantity units per whole coin
MinFree == 10                   \* get_account_balance keeps free > 0.0001
FeeKeepPerMille == 999          \* 1 - trading_fee (0.001), in thousandths
EmergencyDropPct == 30          \* the price drop that makes a SELL an emergency
ExtremeDropPct == 50            \* the price drop of _check_price_drops
STOP_LOSS_MILLI == 15           \* Config.STOP_LOSS_PCT (0.015), in thousandths
TAKE_PROFIT_MILLI == 30         \* Config.TAKE_PROFIT_PCT (0.03), in thousandths
RepeatTradeWindow == 86400      \* the per-symbol guard of _run_strategies
MIN_NOTIONAL == 15              \* Config.MIN_NOTIONAL, in dollars

-----------------------------------------------------------------------------
(* The clock.  Day 0 is a Sunday; weekday() is 0 for Monday. *)

Date(t) == t \div DaySeconds
TimeOfDay(t) == t % DaySeconds
Weekday(t) == (Date(t) + 6) % 7

StartTimes == { 23 * 3600,              \* Sunday 23:00
                58 * 3600 }             \* Tuesday 10:00
AdvanceSteps == { 1800, 3600 }

-----------------------------------------------------------------------------
(* RiskManager *)

RiskInit(t) ==
    [ daily_trades |-> 0, daily_pnl |-> 0, total_pnl |-> 0, total_trades |-> 0,
      winning_trades |-> 0, losing_trades |-> 0,
      consecutive_wins |-> 0, consecutive_losses |-> 0,
      max_consecutive_wins |-> 0, max_consecutive_losses |-> 0,
      peak_balance |-> 0, max_drawdown_pct |-> 0,
      trade_history |-> << >>,
      last_trade_time |-> None,
      last_reset |-> Date(t) ]

(* A reset that never happens. *)
check_daily_reset_never(r, t) == r

(* _check_daily_reset *)
check_daily_reset(r, t) ==
    IF Date(t) # r.last_reset
    THEN [ r EXCEPT !.daily_trades = 0, !.daily_pnl = 0,
                    !.last_reset = Date(t), !.last_trade_time = None ]
    ELSE r

(* The expression time(9, 0) of can_trade: the name time is the module     *)
(* imported by "import time" (datetime.time is not imported), so the call  *)
(* raises TypeError: 'module' object is not callable.                      *)
time_call == "TypeError"

(* base_cooldown after the consecutive-loss multiplier, in seconds:        *)
(* cooldown_period * (1 + consecutive_losses * 0.5).                       *)
base_cooldown(r) ==
    IF r.consecutive_losses >= 2
    THEN (cooldown_period * (2 + r.consecutive_losses)) \div 2
    ELSE cooldown_period

(* The body of can_trade after _check_daily_reset: what it returns (or     *)
(* raises) and the gate that decided.                                      *)
can_trade_gates(r, t) ==
    IF time_call = "TypeError"
        THEN [ ret |-> "TypeError", gate |-> "hours", cooldown |-> None ]
    ELSE IF ~(9 * 3600 <= TimeOfDay(t) /\ TimeOfDay(t) <= 16 * 3600)
        THEN [ ret |-> "False", gate |-> "hours", cooldown |-> None ]
    ELSE IF r.last_trade_time # None /\ t - r.last_trade_time < base_cooldown(r)
        THEN [ ret |-> "False", gate |-> "cooldown", cooldown |-> base_cooldown(r) ]
    ELSE IF r.daily_trades >= max_daily_trades
        THEN [ ret |-> "False", gate |-> "daily", cooldown |-> base_cooldown(r) ]
    ELSE IF r.daily_pnl <= -max_drawdown_pct100
        THEN [ ret |-> "False", gate |-> "drawdown", cooldown |-> base_cooldown(r) ]
    ELSE IF Weekday(t) = 0 \/ (Weekday(t) = 4 /\ TimeOfDay(t) >= 15 * 3600)
        THEN [ ret |-> "False", gate |-> "weekday", cooldown |-> base_cooldown(r) ]
    ELSE [ ret |-> "True", gate |-> "none", cooldown |-> base_cooldown(r) ]

NoCall == [ op |-> "none", ret |-> "none", gate |-> "none", cooldown |-> None ]

(* A record_trade that lets both streaks run side by side. *)
record_trade_keeps_streaks(r, t, side, pnl_usd, pnl_pct, current_balance) ==
    LET r1 == [ r EXCEPT !.total_trades = @ + 1, !.daily_trades = @ + 1 ]
    IN  IF side # "SELL" THEN r1
        ELSE IF pnl_usd >= 0
        THEN [ r1 EXCEPT !.winning_trades = @ + 1, !.consecutive_wins = @ + 1 ]
        ELSE [ r1 EXCEPT !.losing_trades = @ + 1, !.consecutive_losses = @ + 1 ]

(* A record_trade whose peak follows the balance down. *)
record_trade_peak_follows(r, t, side, pnl_usd, pnl_pct, current_balance) ==
    [ r EXCEPT !.total_trades = @ + 1, !.daily_trades = @ + 1,
               !.peak_balance = current_balance ]

(* record_trade.  The caller passes pnl_usd and pnl_pct (the defaults are  *)
(* computed by the callers' operators); a BUY is recorded with zero PnL.   *)
(* The drawdown division raises ZeroDivisionError when peak_balance is 0;  *)
(* the handler's except clause swallows it, after the counters, streaks,   *)
(* PnL sums and peak_balance have already been assigned.                   *)
record_trade(r, t, side, pnl_usd, pnl_pct, current_balance) ==
    LET usd == IF side = "SELL" THEN pnl_usd ELSE 0
        pct == IF side = "SELL" THEN pnl_pct ELSE 0
        is_win == side = "SELL" /\ usd >= 0
        r1 == [ r EXCEPT !.total_trades = @ + 1, !.daily_trades = @ + 1 ]
        r2 == IF side # "SELL" THEN r1
              ELSE IF is_win
              THEN [ r1 EXCEPT !.winning_trades = @ + 1,
                               !.consecutive_wins = @ + 1,
                               !.consecutive_losses = 0,
                               !.max_consecutive_wins =
                                   IF r1.consecutive_wins + 1 > @
                                   THEN r1.consecutive_wins + 1 ELSE @ ]
              ELSE [ r1 EXCEPT !.losing_trades = @ + 1,
                               !.consecutive_losses = @ + 1,
                               !.consecutive_wins = 0,
                               !.max_consecutive_losses =
                                   IF r1.consecutive_losses + 1 > @
                                   THEN r1.consecutive_losses + 1 ELSE @ ]
        peak == IF current_balance > r.peak_balance
                THEN current_balance ELSE r.peak_balance
        r3 == [ r2 EXCEPT !.daily_pnl = @ + pct, !.total_pnl = @ + usd,
                          !.peak_balance = peak ]
    IN  IF peak = 0
        THEN r3
        ELSE LET drawdown == ((peak - current_balance) * 100) \div peak
             IN [ r3 EXCEPT
                    !.max_drawdown_pct = IF drawdown > @ THEN drawdown ELSE @,
                    !.last_trade_time = t,
                    !.trade_history = Append(@,
                        [ side |-> side, pnl_usd |-> usd, pnl_pct |-> pct,
                          is_win |-> is_win, balance |-> current_balance ]) ]

-----------------------------------------------------------------------------
(* BinanceAPI: the market rules and the order validation *)

Symbols == { "BTCUSDT", "XRPUSDT", "DOGEUSDT" }

Rules(minQty, stepSize, minNotional, stepIsFloat, hasAssets) ==
    [ minQty |-> minQty, stepSize |-> stepSize, minNotional |-> minNotional,
      stepIsFloat |-> stepIsFloat, hasAssets |-> hasAssets ]

(* DEFAULT_VALUES, the static fallback of get_market_info: its entries     *)
(* have no baseAsset and no quoteAsset key, and the step of XRPUSDT and of *)
(* DOGEUSDT is the int literal 1.                                          *)
DEFAULT_VALUES(s) ==
    IF s = "BTCUSDT" THEN Rules(1, 1, 10, TRUE, FALSE)
    ELSE Rules(QtyScale, QtyScale, 10, FALSE, FALSE)

(* What get_market_info builds from the exchange's symbol info: every      *)
(* number goes through float(), and baseAsset and quoteAsset are set; the  *)
(* minNotional is Config.MIN_NOTIONAL when the symbol has no MIN_NOTIONAL  *)
(* filter.                                                                 *)
ApiRules(s) ==
    IF s = "BTCUSDT" THEN { Rules(1, 1, 10, TRUE, TRUE) }
    ELSE IF s = "XRPUSDT"
    THEN { Rules(QtyScale, QtyScale, 10, TRUE, TRUE),
           Rules(QtyScale \div 10, QtyScale \div 10, 10, TRUE, TRUE) }
    ELSE { Rules(QtyScale, QtyScale, 10, TRUE, TRUE),
           Rules(QtyScale, QtyScale, MIN_NOTIONAL, TRUE, TRUE) }

(* get_market_info: the exchange's rules, or the fallback when the lookup  *)
(* fails; the result is cached for the run.                                *)
get_market_info(s) == ApiRules(s) \cup { DEFAULT_VALUES(s) }

(* The quantity units of one step of 10^-p coins. *)
StepOf(p) == QtyScale \div (10 ^ p)

(* _execute_trade: precision = int(round(-math.log(step_size, 10))) *)
main_precision(mi) == CHOOSE p \in 0..5 : StepOf(p) = mi.stepSize

(* execute_order: precision = abs(Decimal(str(stepSize)).as_tuple().exponent), *)
(* the digits after the point of str(stepSize): str(1.0) is "1.0", one     *)
(* digit, and str(1) is "1", none.                                         *)
exchange_precision(mi) ==
    IF mi.stepSize >= QtyScale
    THEN (IF mi.stepIsFloat THEN 1 ELSE 0)
    ELSE main_precision(mi)

(* Decimal.quantize(Decimal(10) ** -p, rounding=ROUND_DOWN) *)
quantize_down(q, p) == (q \div StepOf(p)) * StepOf(p)

(* get_account_balance: only the assets with free > 0.0001 are reported. *)
get_account_balance(f, s) == IF f[s] > MinFree THEN f[s] ELSE 0

(* execute_order up to its create_order call: the quantity it submits, or  *)
(* None when a validation returns None.                                    *)
execute_order_quantity(mi, p, quantity) ==
    LET valid_quantity == quantize_down(quantity, exchange_precision(mi))
    IN  IF valid_quantity < mi.minQty THEN None
        ELSE IF valid_quantity * p < mi.minNotional * QtyScale THEN None
        ELSE valid_quantity

(* The exchange fills a market SELL only if the quantity passes its LOT_SIZE *)
(* and MIN_NOTIONAL filters and the free balance covers it; it may reject   *)
(* any order.                                                               *)
ExchangeAccepts(mi, p, f, s, q) ==
    /\ q > 0 /\ q <= f[s]
    /\ q % mi.stepSize = 0 /\ q >= mi.minQty
    /\ q * p >= mi.minNotional * QtyScale

-----------------------------------------------------------------------------
(* TradingBot: sizing a SELL in _execute_trade *)

(* price_drop_pct > 30 for a tracked position *)
is_emergency_sale(pos, p) ==
    (pos.entry_price - p) * 100 > EmergencyDropPct * pos.entry_price

(* The SELL quantity of _execute_trade before its validations. *)
sell_quantity(s, mi, available, emergency) ==
    LET rounded == quantize_down((available * FeeKeepPerMille) \div 1000,
                                 main_precision(mi))
        q1 == IF emergency THEN available ELSE rounded
    IN  IF s = "DOGEUSDT"
        THEN ((IF q1 > QtyScale THEN q1 ELSE QtyScale) \div QtyScale) * QtyScale
        ELSE q1

(* _update_position_status, with the balance the exchange reports after the fill *)
update_position_status(ops, s, mi, executed_price, remaining_balance) ==
    IF remaining_balance <= mi.minQty * 2
    THEN [ x \in (DOMAIN ops) \ {s} |-> ops[x] ]
    ELSE IF remaining_balance * executed_price * 2 < mi.minNotional * QtyScale
    THEN [ ops EXCEPT ![s].dust = TRUE ]
    ELSE [ ops EXCEPT ![s].quantity = remaining_balance ]

Position(qty, entry) ==
    [ side |-> "BUY", quantity |-> qty, entry_price |-> entry,
      entry_time |-> 0, dust |-> FALSE, stranded |-> FALSE ]

(* What the last _execute_trade did: the quantity it sized (None when it   *)
(* left before sizing), the balance it sized from, whether an order reached *)
(* client.create_order, and whether the ledger, the RiskManager or the      *)
(* last-trade map changed.                                                  *)
Observed(s, signal, outcome, quantity, available, emergency, sent, changed) ==
    [ op |-> "execute_trade", symbol |-> s, signal |-> signal,
      outcome |-> outcome, quantity |-> quantity, available |-> available,
      emergency |-> emergency, tracked |-> s \in DOMAIN open_positions,
      sent |-> sent, changed |-> changed ]

NoTrade == [ op |-> "none", symbol |-> "none", signal |-> "none",
             outcome |-> "none", quantity |-> None, available |-> None,
             emergency |-> FALSE, tracked |-> FALSE,
             sent |-> FALSE, changed |-> FALSE ]

-----------------------------------------------------------------------------
(* TradingBot._execute_trade, with execute_order, the exchange's answer,   *)
(* _process_order_execution, _update_position_status and _finalize_trade.  *)

EmptyMap == [ x \in {} |-> 0 ]
Commissions == { 0, 1 }

(* The BUY branch going on after its volatility step to the order: the     *)
(* quantity raised to minQty and, rounded up, to minNotional.              *)
Abort_submits_buy(s, signal, outcome, quantity, available, emergency) ==
    IF signal = "BUY" /\ outcome = "AttributeError: _calculate_atr"
    THEN LET mi == market_info[s]
             q0 == (account_balance * 2 * QtyScale) \div (100 * price[s])
             q1 == IF q0 < mi.minQty THEN mi.minQty ELSE q0
             up == (mi.minNotional * QtyScale + price[s] - 1) \div price[s]
             q2 == IF q1 * price[s] < mi.minNotional * QtyScale
                   THEN (IF up > mi.minQty THEN up ELSE mi.minQty)
                   ELSE q1
         IN  /\ trade' = Observed(s, signal, "filled", q2, available, FALSE,
                                  TRUE, FALSE)
             /\ orders' = Append(orders,
                    [ symbol |-> s, side |-> "BUY", quantity |-> q2,
                      via |-> "execute_order", available |-> account_balance,
                      tracked |-> s \in DOMAIN open_positions,
                      emergency |-> FALSE, rules |-> mi, price |-> price[s],
                      filled |-> TRUE, at |-> now ])
             /\ UNCHANGED <<now, risk, call, recAt, account_balance, open_positions,
                            last_trade_time, market_info, price, free, saved,
                            avg_entry, symbols>>
    ELSE /\ trade' = Observed(s, signal, outcome, quantity, available, emergency,
                              FALSE, FALSE)
         /\ UNCHANGED <<now, risk, call, recAt, account_balance, open_positions,
                        last_trade_time, market_info, price, free, orders, saved,
                        avg_entry, symbols>>

(* The handler ends in one of its except clauses before any order. *)
Abort(s, signal, outcome, quantity, available, emergency) ==
    /\ trade' = Observed(s, signal, outcome, quantity, available, emergency,
                         FALSE, FALSE)
    /\ UNCHANGED <<now, risk, call, recAt, account_balance, open_positions,
                   last_trade_time, market_info, price, free, orders, saved,
                   avg_entry, symbols>>

(* client.create_order(symbol, SELL, MARKET, q), reached through            *)
(* execute_order (via = "execute_order") or directly from the small-position *)
(* branch (via = "small_position"), and what follows the exchange's answer.  *)
(* A rejection raises BinanceAPIException: nothing is recorded.  A fill runs *)
(* _process_order_execution: for a tracked position record_trade, then       *)
(* self.alerts.trade_closure_alert, which AlertSystem does not define, so    *)
(* the handler leaves with AttributeError before _update_position_status;    *)
(* for DOGEUSDT _send_doge_alert (which catches its own errors), then        *)
(* _update_position_status and _finalize_trade, which sets the last-trade    *)
(* time and then fails on the undefined self._calculate_take_profit.         *)
Submit(s, via, q, sized, available, emergency, accept, commission) ==
    LET mi == market_info[s]
        p == price[s]
        tracked == s \in DOMAIN open_positions
        order == [ symbol |-> s, side |-> "SELL", quantity |-> q, via |-> via,
                   available |-> available, tracked |-> tracked,
                   emergency |-> emergency, rules |-> mi, price |-> p,
                   filled |-> accept, at |-> now ]
    IN  /\ accept => ExchangeAccepts(mi, p, free, s, q)
        /\ orders' = Append(orders, order)
        /\ free' = IF accept THEN [ free EXCEPT ![s] = @ - q ] ELSE free
        /\ IF accept /\ tracked
           THEN LET pos == open_positions[s]
                IN /\ risk' = record_trade(risk, now, "SELL",
                                  (p - pos.entry_price) * q - commission,
                                  ((p - pos.entry_price) * 100) \div pos.entry_price,
                                  account_balance)
                   /\ recAt' = now
           ELSE UNCHANGED <<risk, recAt>>
        /\ IF accept /\ tracked /\ s = "DOGEUSDT"
           THEN open_positions' = update_position_status(open_positions, s, mi, p,
                                      get_account_balance(free', s))
           ELSE UNCHANGED open_positions
        /\ IF accept /\ (~tracked \/ s = "DOGEUSDT")
           THEN /\ last_trade_time' = (s :> now) @@ last_trade_time
                /\ saved' = last_trade_time'
           ELSE UNCHANGED <<last_trade_time, saved>>
        /\ trade' = Observed(s, "SELL", IF accept THEN "filled" ELSE "rejected",
                             sized, available, emergency, TRUE,
                             \/ risk' # risk
                             \/ open_positions' # open_positions
                             \/ last_trade_time' # last_trade_time)
        /\ UNCHANGED <<now, call, account_balance, market_info, price, avg_entry,
                       symbols>>

ExecuteTrade(s, signal) ==
    /\ Len(orders) < MaxOrders
    /\ \E accept \in BOOLEAN, commission \in Commissions :
        LET mi == market_info[s]
            p == price[s]
            tracked == s \in DOMAIN open_positions
            available == get_account_balance(free, s)
            emergency == tracked /\ is_emergency_sale(open_positions[s], p)
            quantity == sell_quantity(s, mi, available, emergency)
            small == quantity * p < mi.minNotional * QtyScale /\ ~emergency
            xq == execute_order_quantity(mi, p, quantity)
        IN  IF p = 0
                THEN Abort(s, signal, "ValueError: invalid price", None, None, FALSE)
            ELSE IF ~mi.hasAssets
                THEN Abort(s, signal, "KeyError: baseAsset", None, None, FALSE)
            ELSE IF signal = "BUY"
                THEN Abort(s, signal, "AttributeError: _calculate_atr",
                           None, None, FALSE)
            ELSE IF available <= 0
                THEN Abort(s, signal, "ValueError: nothing to sell",
                           None, available, FALSE)
            ELSE IF tracked /\ open_positions[s].entry_price = 0
                THEN Abort(s, signal, "ZeroDivisionError: entry_price",
                           None, available, FALSE)
            ELSE IF quantity < mi.minQty
                THEN Abort(s, signal, "ValueError: below minQty",
                           quantity, available, emergency)
            ELSE IF small /\ ~tracked
                THEN Abort(s, signal, "ValueError: notional too small",
                           quantity, available, emergency)
            ELSE IF small
                THEN Submit(s, "small_position", quantity, quantity, available,
                            emergency, accept, commission)
            ELSE IF xq = None
                THEN Abort(s, signal, "ValueError: order execution failed",
                           quantity, available, emergency)
            ELSE Submit(s, "execute_order", xq, quantity, available, emergency,
                        accept, commission)

-----------------------------------------------------------------------------
(* The trade path on its own: one symbol holds a balance and possibly a    *)
(* tracked position; _execute_trade is called with either signal.          *)

AccountBalances == { 0, 1000 }
Prices(s) == IF s = "BTCUSDT" THEN { 50000 } ELSE { 0, 1, 2 }
Entries(s) == IF s = "BTCUSDT" THEN { 50000 } ELSE { 0, 1, 2 }
Frees(s) == IF s = "BTCUSDT" THEN { 0, 50 }
            ELSE { 0, 50000, 150000, 550000, 1234000 }
IdleRules(s) == CHOOSE r \in ApiRules(s) : TRUE

InitBot ==
    /\ account_balance \in AccountBalances
    /\ last_trade_time = EmptyMap
    /\ orders = << >>
    /\ trade = NoTrade
    /\ saved = EmptyMap
    /\ \E a \in Symbols :
        /\ \E r \in get_market_info(a) :
              market_info = [ s \in Symbols |-> IF s = a THEN r ELSE IdleRules(s) ]
        /\ \E p \in Prices(a) :
              price = [ s \in Symbols |-> IF s = a THEN p ELSE 1 ]
        /\ \E f \in Frees(a) :
              free = [ s \in Symbols |-> IF s = a THEN f ELSE 0 ]
        /\ symbols = <<a>>
        /\ \E e \in Entries(a) :
              /\ avg_entry = [ s \in Symbols |-> IF s = a THEN e ELSE 1 ]
              /\ \/ open_positions = EmptyMap
                 \/ open_positions =
                     (a :> Position(IF free[a] > 0 THEN free[a] ELSE QtyScale, e))

(* The cycle of run is not running. *)
NoStep == [ op |-> "none", symbol |-> "none", outcome |-> "none",
            fetched |-> FALSE, limit |-> "none", signal |-> "none" ]

TickIdle ==
    /\ pc = "idle"
    /\ attempt = 0
    /\ cursor = 0
    /\ ticks = 0
    /\ prev = EmptyMap
    /\ removed = {}
    /\ step = NoStep

InitTrade ==
    /\ now = 58 * 3600
    /\ risk = RiskInit(now)
    /\ call = NoCall
    /\ recAt = None
    /\ InitBot
    /\ TickIdle

NextTrade ==
    \E s \in Symbols, signal \in {"BUY", "SELL"} :
        ExecuteTrade(s, signal) /\ UNCHANGED tickVars

SpecTrade == InitTrade /\ [][NextTrade]_vars

-----------------------------------------------------------------------------
(* The RiskManager on its own: its two operations and the clock. *)

TradeOutcomes == { <<-30, -3>>, <<10, 1>> }     \* <<pnl_usd, pnl_pct>>
Balances == { 0, 100 }

BotIdle ==
    /\ account_balance = 0
    /\ open_positions = EmptyMap
    /\ last_trade_time = EmptyMap
    /\ market_info = [ s \in Symbols |-> IdleRules(s) ]
    /\ price = [ s \in Symbols |-> 1 ]
    /\ free = [ s \in Symbols |-> 0 ]
    /\ orders = << >>
    /\ trade = NoTrade
    /\ saved = EmptyMap
    /\ avg_entry = [ s \in Symbols |-> 1 ]
    /\ symbols = << >>
    /\ TickIdle

InitRisk ==
    /\ now \in StartTimes
    /\ risk = RiskInit(now)
    /\ call = NoCall
    /\ recAt = None
    /\ BotIdle

CanTrade ==
    LET r == check_daily_reset(risk, now)
        g == can_trade_gates(r, now)
    IN  /\ risk' = r
        /\ call' = [ op |-> "can_trade", ret |-> g.ret, gate |-> g.gate,
                     cooldown |-> g.cooldown ]
        /\ UNCHANGED <<now, recAt, botVars, tickVars>>

RecordTrade ==
    /\ risk.total_trades < MaxTrades
    /\ \E side \in {"BUY", "SELL"}, o \in TradeOutcomes, b \in Balances :
          risk' = record_trade(risk, now, side, o[1], o[2], b)
    /\ call' = [ NoCall EXCEPT !.op = "record_trade" ]
    /\ recAt' = now
    /\ UNCHANGED <<now, botVars, tickVars>>

Advance ==
    /\ \E d \in AdvanceSteps :
          /\ \E s \in StartTimes : s <= now /\ now + d <= s + Horizon
          /\ now' = now + d
    /\ call' = NoCall
    /\ UNCHANGED <<risk, recAt, botVars, tickVars>>

NextRisk == CanTrade \/ RecordTrade \/ Advance

Spec == InitRisk /\ [][NextRisk]_vars

-----------------------------------------------------------------------------
(* TradingBot.run: the steps of one cycle, in the order of the loop body. *)

MaxTicks == 1           \* cycles of run explored

(* A comparison that finds every pair of quantities close. *)
isclose_always(a, b) == TRUE

(* math.isclose(a, b, rel_tol=0.01) *)
isclose(a, b) ==
    LET d == IF a > b THEN a - b ELSE b - a
        m == IF a > b THEN a ELSE b
    IN  d * 100 <= m

(* The value q * p in dollars is below num/den dollars. *)
value_below(q, p, num, den) == q * p * den < num * QtyScale

(* The larger of two dollar amounts. *)
max_dollars(a, b) == IF a > b THEN a ELSE b

(* balances.get(base_asset, 0) of a get_account_balance call: the call     *)
(* returns {} after three failed attempts.                                 *)
balance_of(ok, s) == IF ok THEN get_account_balance(free, s) ELSE 0

(* The body of _validate_open_positions for the balance map read. *)
validate_open_positions(ops, ok) ==
    [ s \in { x \in DOMAIN ops : balance_of(ok, x) > 0 } |->
        IF isclose(ops[s].quantity, balance_of(ok, s))
        THEN ops[s]
        ELSE [ ops[s] EXCEPT !.quantity = balance_of(ok, s) ] ]

(* A position dict as get_open_positions builds it: no entry_time, no dust *)
(* and no stranded key.                                                    *)
BalancePosition(qty, entry) ==
    [ Position(qty, entry) EXCEPT !.entry_time = None ]

(* get_open_positions: get_open_orders never lists a FILLED order, so the  *)
(* positions come from the balances of STABLE_PAIRS; a symbol whose cached *)
(* rules have no baseAsset raises KeyError and is skipped; an API failure  *)
(* gives {}.                                                               *)
get_open_positions(ok) ==
    [ s \in { x \in Symbols : market_info[x].hasAssets /\ balance_of(ok, x) > 0 } |->
        BalancePosition(balance_of(ok, s), avg_entry[s]) ]

(* _log_account_state: a position worth less than max($1, 10% of          *)
(* minNotional) is marked dust; one without a price is left alone.         *)
log_account_state(ops) ==
    [ s \in DOMAIN ops |->
        IF price[s] # 0
           /\ value_below(ops[s].quantity, price[s],
                          max_dollars(10, market_info[s].minNotional), 10)
        THEN [ ops[s] EXCEPT !.dust = TRUE ]
        ELSE ops[s] ]

(* A cleanup that finds no dust. *)
dust_symbols_none(ops) == {}

(* dust_symbols of _cleanup_dust_positions(initial_cleanup=False): the     *)
(* positions marked dust, with a price, worth less than                    *)
(* max(5.0, Config.MIN_NOTIONAL * 0.5).                                    *)
dust_symbols(ops) ==
    { s \in DOMAIN ops :
        /\ ops[s].dust
        /\ price[s] # 0
        /\ value_below(ops[s].quantity, price[s],
                       max_dollars(10, MIN_NOTIONAL), 2) }

(* The result of _check_position_limits before it acts. *)
position_limit(s) ==
    IF s \notin DOMAIN open_positions \/ price[s] = 0 THEN "none"
    ELSE LET e == open_positions[s].entry_price
             p == price[s]
         IN  IF e = 0 THEN "ZeroDivisionError"
             ELSE IF (p - e) * 100 * 1000 <= -STOP_LOSS_MILLI * e THEN "stop_loss"
             ELSE IF (p - e) * 100 * 1000 >= TAKE_PROFIT_MILLI * e THEN "take_profit"
             ELSE "none"

(* drop_pct > 50 in _check_price_drops *)
is_extreme_drop(pos, p) ==
    (pos.entry_price - p) * 100 > ExtremeDropPct * pos.entry_price

(* The quantity of _execute_stop_loss: whole coins for DOGEUSDT, else the  *)
(* balance cut to the digits of str(stepSize).                             *)
stop_loss_quantity(s, mi, available) ==
    IF s = "DOGEUSDT" THEN quantize_down(available, 0)
    ELSE quantize_down(available, exchange_precision(mi))

(* _run_strategies without its repeat-trade guard. *)
strategy_outcome_unguarded(s, data_ok, signal) ==
    IF ~data_ok THEN "insufficient data"
    ELSE IF signal = "none" THEN "no signal"
    ELSE "AttributeError: action"

(* _run_strategies after _check_position_limits returned False: the 24 h   *)
(* guard, the data check, then the signal; the strategy returns a str or   *)
(* None, and signal.action raises AttributeError for a str.                *)
strategy_outcome(s, data_ok, signal) ==
    IF s \in DOMAIN last_trade_time /\ now - last_trade_time[s] < RepeatTradeWindow
        THEN "skipped: traded recently"
    ELSE IF ~data_ok THEN "insufficient data"
    ELSE IF signal = "none" THEN "no signal"
    ELSE "AttributeError: action"

Stepped(op, s, outcome, fetched, limit, signal) ==
    [ op |-> op, symbol |-> s, outcome |-> outcome, fetched |-> fetched,
      limit |-> limit, signal |-> signal ]

Without(ops, s) == [ x \in (DOMAIN ops) \ {s} |-> ops[x] ]

(* self.exchange.client.create_order(symbol, SELL, MARKET, q) called by a  *)
(* handler itself, and the exchange's answer.                              *)
DirectOrder(s, via, q, available, accept) ==
    /\ Len(orders) < MaxOrders
    /\ accept => ExchangeAccepts(market_info[s], price[s], free, s, q)
    /\ orders' = Append(orders,
           [ symbol |-> s, side |-> "SELL", quantity |-> q, via |-> via,
             available |-> available, tracked |-> s \in DOMAIN open_positions,
             emergency |-> via = "emergency_sale", rules |-> market_info[s],
             price |-> price[s], filled |-> accept, at |-> now ])
    /\ free' = IF accept THEN [ free EXCEPT ![s] = @ - q ] ELSE free

(* _validate_open_positions *)
ValidateOpenPositions ==
    /\ pc = "validate"
    /\ UNCHANGED attempt
    /\ \E ok \in BOOLEAN :
          /\ open_positions' = validate_open_positions(open_positions, ok)
          /\ removed' = IF ok
                         THEN removed \cup { s \in DOMAIN open_positions :
                                                get_account_balance(free, s) = 0 }
                         ELSE removed
          /\ step' = Stepped("validate", "none", "done", ok, "none", "none")
    /\ prev' = open_positions
    /\ pc' = "drops"
    /\ UNCHANGED <<riskVars, account_balance, last_trade_time, market_info, price,
                   free, orders, trade, saved, avg_entry, symbols, cursor, ticks>>

(* _check_price_drops with _execute_emergency_sale.  The division by an    *)
(* entry price of 0.0 is not caught in the loop: run's except clause calls *)
(* _shutdown and re-raises.  The explored runs hold one position at most.  *)
CheckPriceDrops ==
    /\ pc = "drops"
    /\ UNCHANGED attempt
    /\ Cardinality(DOMAIN open_positions) <= 1
    /\ prev' = open_positions
    /\ UNCHANGED removed
    /\ LET priced == { s \in DOMAIN open_positions : price[s] # 0 }
           crash == { s \in priced : open_positions[s].entry_price = 0 }
           extreme == { s \in priced \ crash :
                            is_extreme_drop(open_positions[s], price[s]) }
       IN  IF crash # {}
           THEN /\ saved' = last_trade_time
                /\ pc' = "stopped"
                /\ step' = Stepped("drops", CHOOSE s \in crash : TRUE,
                                   "ZeroDivisionError", FALSE, "none", "none")
                /\ UNCHANGED <<orders, free>>
           ELSE IF extreme = {}
           THEN /\ pc' = "refresh"
                /\ step' = Stepped("drops", "none", "done", FALSE, "none", "none")
                /\ UNCHANGED <<orders, free, saved>>
           ELSE \E s \in extreme, ok \in BOOLEAN, accept \in BOOLEAN :
                /\ DirectOrder(s, "emergency_sale",
                       quantize_down(balance_of(ok, s),
                                     exchange_precision(market_info[s])),
                       balance_of(ok, s), accept)
                /\ pc' = "refresh"
                /\ step' = Stepped("drops", s,
                                   IF accept THEN "filled" ELSE "rejected",
                                   ok, "none", "none")
                /\ UNCHANGED saved
    /\ UNCHANGED <<riskVars, account_balance, open_positions, last_trade_time,
                   market_info, price, trade, avg_entry, symbols, cursor, ticks>>

(* _update_account_state: the USDT balance, then the ledger replaced by    *)
(* get_open_positions(), then _log_account_state.                          *)
UpdateAccountState ==
    /\ pc = "refresh"
    /\ UNCHANGED attempt
    /\ \E b \in AccountBalances, ok \in BOOLEAN :
          /\ account_balance' = b
          /\ open_positions' = log_account_state(get_open_positions(ok))
          /\ step' = Stepped("refresh", "none", "done", ok, "none", "none")
    /\ prev' = open_positions
    /\ UNCHANGED removed
    /\ pc' = "dust"
    /\ UNCHANGED <<riskVars, last_trade_time, market_info, price, free, orders,
                   trade, saved, avg_entry, symbols, cursor, ticks>>

(* _cleanup_dust_positions() with _convert_dust_to_usdt: every dust symbol *)
(* leaves the ledger; one worth more than $1 is sold at the market.        *)
CleanupDustPositions ==
    /\ pc = "dust"
    /\ UNCHANGED attempt
    /\ Cardinality(DOMAIN open_positions) <= 1
    /\ prev' = open_positions
    /\ UNCHANGED removed
    /\ pc' = "stranded"
    /\ LET dust == dust_symbols(open_positions)
       IN  IF dust = {}
           THEN /\ step' = Stepped("dust", "none", "done", FALSE, "none", "none")
                /\ UNCHANGED <<open_positions, orders, free>>
           ELSE \E s \in dust, ok \in BOOLEAN, accept \in BOOLEAN :
                LET available == balance_of(ok, s)
                    q == quantize_down(available, exchange_precision(market_info[s]))
                IN  /\ open_positions' = Without(open_positions, s)
                    /\ IF open_positions[s].quantity * price[s] > QtyScale
                          /\ available > 0 /\ q > 0
                       THEN /\ DirectOrder(s, "dust_conversion", q, available, accept)
                            /\ step' = Stepped("dust", s,
                                   IF accept THEN "filled" ELSE "rejected",
                                   ok, "none", "none")
                       ELSE /\ step' = Stepped("dust", s, "removed", ok,
                                               "none", "none")
                            /\ UNCHANGED <<orders, free>>
    /\ UNCHANGED <<riskVars, account_balance, last_trade_time, market_info, price,
                   trade, saved, avg_entry, symbols, cursor, ticks>>

(* _handle_stranded_positions: a position whose stranded flag is set and   *)
(* whose value is back at 80% of minNotional has the flag deleted and is   *)
(* sold with _execute_trade; nothing reads the flag after that.            *)
HandleStrandedPositions ==
    /\ pc = "stranded"
    /\ UNCHANGED attempt
    /\ Cardinality(DOMAIN open_positions) <= 1
    /\ prev' = open_positions
    /\ UNCHANGED removed
    /\ pc' = "strategies"
    /\ cursor' = 1
    /\ UNCHANGED ticks
    /\ LET recover == { s \in DOMAIN open_positions :
                          /\ open_positions[s].stranded
                          /\ price[s] # 0
                          /\ ~value_below(open_positions[s].quantity, price[s],
                                          market_info[s].minNotional * 8, 10) }
       IN  IF recover = {}
           THEN /\ step' = Stepped("stranded", "none", "done", FALSE, "none", "none")
                /\ UNCHANGED <<riskVars, botVars>>
           ELSE \E s \in recover :
                /\ ExecuteTrade(s, "SELL")
                /\ step' = Stepped("stranded", s, "recovered", FALSE, "none", "none")

(* _execute_stop_loss.  After a fill the handler raises AttributeError     *)
(* (self._format_duration for DOGEUSDT, self.alerts.trade_closure_alert    *)
(* otherwise: neither is defined), and a rejection raises too: its except  *)
(* clause drops the position only when it is worth less than $1, and the   *)
(* handler returns False.                                                  *)
ExecuteStopLoss(s, ok, accept) ==
    LET available == balance_of(ok, s)
        q == stop_loss_quantity(s, market_info[s], available)
    IN  IF available <= 0 \/ q <= 0
        THEN /\ open_positions' = Without(open_positions, s)
             /\ UNCHANGED <<orders, free>>
        ELSE /\ DirectOrder(s, "stop_loss", q, available, accept)
             /\ open_positions' =
                    IF value_below(open_positions[s].quantity, price[s], 1, 1)
                    THEN Without(open_positions, s)
                    ELSE open_positions

(* One iteration of the loop of _run_strategies (the definition at the end *)
(* of the class, which replaces the earlier one), for symbols[cursor].     *)
RunStrategies ==
    /\ pc = "strategies"
    /\ UNCHANGED attempt
    /\ cursor <= Len(symbols)
    /\ prev' = open_positions
    /\ UNCHANGED removed
    /\ cursor' = cursor + 1
    /\ pc' = IF cursor = Len(symbols) THEN "sleep" ELSE "strategies"
    /\ UNCHANGED ticks
    /\ \E data_ok \in BOOLEAN, signal \in {"none", "BUY", "SELL"} :
        LET s == symbols[cursor]
            limit == position_limit(s)
            after == strategy_outcome(s, data_ok, signal)
        IN  IF limit = "take_profit"
            THEN /\ ExecuteTrade(s, "SELL")
                 /\ step' = Stepped("strategy", s, "take_profit", FALSE, limit, "none")
            ELSE IF limit = "stop_loss"
            THEN \E ok \in BOOLEAN, accept \in BOOLEAN :
                 /\ ExecuteStopLoss(s, ok, accept)
                 /\ step' = Stepped("strategy", s, after, ok, limit, signal)
                 /\ UNCHANGED <<riskVars, account_balance, last_trade_time,
                                market_info, price, trade, saved, avg_entry, symbols>>
            ELSE /\ step' = Stepped("strategy", s,
                                    IF limit = "ZeroDivisionError" THEN limit ELSE after,
                                    FALSE, limit, signal)
                 /\ UNCHANGED <<riskVars, botVars>>

TickSymbols == { "XRPUSDT", "DOGEUSDT" }
TickPrices == { 0, 1, 2, 3, 4 }
TickFrees == { 0, 40000, 1230000, 1234000 }
TickEntries == { 0, 3 }
TickAdvance == { 300, 86400 }
StartPrices == { 3, 4 }
StartFrees == { 40000, 1234000 }

(* time.sleep(sleep_time), twice; meanwhile the market moves or the        *)
(* account's balance of the traded asset changes outside the bot.          *)
Sleep ==
    /\ pc = "sleep"
    /\ UNCHANGED attempt
    /\ ticks < MaxTicks
    /\ ticks' = ticks + 1
    /\ pc' = "validate"
    /\ prev' = open_positions
    /\ UNCHANGED removed
    /\ step' = Stepped("sleep", "none", "done", FALSE, "none", "none")
    /\ \E d \in TickAdvance : now' = now + d
    /\ \/ /\ \E p \in TickPrices :
                price' = [ x \in Symbols |->
                             IF \E i \in DOMAIN symbols : symbols[i] = x THEN p
                             ELSE price[x] ]
          /\ UNCHANGED free
       \/ /\ \E f \in TickFrees :
                free' = [ x \in Symbols |->
                            IF \E i \in DOMAIN symbols : symbols[i] = x THEN f
                            ELSE free[x] ]
          /\ UNCHANGED price
    /\ UNCHANGED <<risk, call, recAt, account_balance, open_positions,
                   last_trade_time, market_info, orders, trade, saved, avg_entry,
                   symbols, cursor>>

(* KeyboardInterrupt in run, while the bot sleeps after the last explored  *)
(* cycle: _shutdown writes the last-trade map.                             *)
Shutdown ==
    /\ pc = "sleep"
    /\ UNCHANGED attempt
    /\ ticks = MaxTicks
    /\ saved' = last_trade_time
    /\ pc' = "stopped"
    /\ prev' = open_positions
    /\ UNCHANGED removed
    /\ step' = Stepped("shutdown", "none", "done", FALSE, "none", "none")
    /\ UNCHANGED <<riskVars, account_balance, open_positions, last_trade_time,
                   market_info, price, free, orders, trade, avg_entry, symbols,
                   cursor, ticks>>

(* TradingBot.__init__ of the next process: every approved symbol answers  *)
(* the price check again; the maps start empty and nothing reads           *)
(* state/last_trades.json; _validate_open_positions and the initial        *)
(* _cleanup_dust_positions find an empty ledger.                           *)
Startup ==
    /\ pc = "stopped"
    /\ UNCHANGED attempt
    /\ \A i \in DOMAIN symbols : price[symbols[i]] # 0
    /\ last_trade_time' = EmptyMap
    /\ account_balance' = 0
    /\ open_positions' = EmptyMap
    /\ risk' = RiskInit(now)
    /\ call' = NoCall
    /\ recAt' = None
    /\ pc' = "validate"
    /\ prev' = open_positions
    /\ UNCHANGED removed
    /\ step' = Stepped("startup", "none", "done", FALSE, "none", "none")
    /\ UNCHANGED <<now, market_info, price, free, orders, trade, saved, avg_entry,
                   symbols, cursor, ticks>>

InitTick ==
    /\ now = 58 * 3600
    /\ risk = RiskInit(now)
    /\ call = NoCall
    /\ recAt = None
    /\ account_balance = 0
    /\ open_positions = EmptyMap
    /\ last_trade_time = EmptyMap
    /\ orders = << >>
    /\ trade = NoTrade
    /\ saved = EmptyMap
    /\ \E a \in TickSymbols :
        /\ symbols = <<a>>
        /\ \E r \in ApiRules(a) :
              market_info = [ s \in Symbols |-> IF s = a THEN r ELSE IdleRules(s) ]
        /\ \E p \in StartPrices :
              price = [ s \in Symbols |-> IF s = a THEN p ELSE 0 ]
        /\ \E f \in StartFrees :
              free = [ s \in Symbols |-> IF s = a THEN f ELSE 0 ]
        /\ \E e \in TickEntries :
              avg_entry = [ s \in Symbols |-> IF s = a THEN e ELSE 0 ]
    /\ pc = "validate"
    /\ attempt = 0
    /\ cursor = 0
    /\ ticks = 0
    /\ prev = EmptyMap
    /\ removed = {}
    /\ step = NoStep

(* The account is credited from outside the bot (a deposit or a transfer)  *)
(* while the asset's balance is zero.                                      *)
Deposit ==
    /\ pc \in { "validate", "drops", "refresh", "dust", "stranded", "strategies",
                "sleep" }
    /\ \E i \in DOMAIN symbols, f \in TickFrees \ {0} :
          /\ free[symbols[i]] = 0
          /\ free' = [ free EXCEPT ![symbols[i]] = f ]
    /\ prev' = open_positions
    /\ step' = Stepped("deposit", "none", "done", FALSE, "none", "none")
    /\ UNCHANGED <<riskVars, account_balance, open_positions, last_trade_time,
                   market_info, price, orders, trade, saved, avg_entry, symbols,
                   pc, cursor, ticks, removed, attempt>>

(* The market falls by a dollar between the stranded pass and the strategy *)
(* pass (every handler asks get_price anew); explored in the first cycle.  *)
PriceMove ==
    /\ pc = "strategies"
    /\ UNCHANGED attempt
    /\ step.op = "stranded"
    /\ ticks = 0
    /\ cursor <= Len(symbols)
    /\ symbols[cursor] \in DOMAIN open_positions
    /\ \E p \in TickPrices :
          /\ p = price[symbols[cursor]] - 1 /\ p > 0
          /\ price' = [ price EXCEPT ![symbols[cursor]] = p ]
    /\ prev' = open_positions
    /\ step' = Stepped("price", "none", "done", FALSE, "none", "none")
    /\ UNCHANGED <<riskVars, account_balance, open_positions, last_trade_time,
                   market_info, free, orders, trade, saved, avg_entry, symbols,
                   pc, cursor, ticks, removed>>

(* KeyboardInterrupt raised in the main thread while _run_strategies has   *)
(* the exit order of symbols[cursor] at the exchange (after the last       *)
(* explored cycle's refresh): the order is filled, the exception is not an *)
(* Exception, so no handler of the symbol catches it, and run's            *)
(* except KeyboardInterrupt calls _shutdown, which writes the map.         *)
Interrupt ==
    /\ pc = "strategies"
    /\ UNCHANGED attempt
    /\ ticks = MaxTicks
    /\ cursor <= Len(symbols)
    /\ LET s == symbols[cursor]
           mi == market_info[s]
           limit == position_limit(s)
           available == get_account_balance(free, s)
           quantity == sell_quantity(s, mi, available, FALSE)
           small == quantity * price[s] < mi.minNotional * QtyScale
           xq == execute_order_quantity(mi, price[s], quantity)
       IN  /\ limit \in { "stop_loss", "take_profit" }
           /\ mi.hasAssets
           /\ available > 0
           /\ IF limit = "stop_loss"
              THEN DirectOrder(s, "stop_loss",
                               stop_loss_quantity(s, mi, available), available, TRUE)
              ELSE /\ ~is_emergency_sale(open_positions[s], price[s])
                   /\ quantity >= mi.minQty
                   /\ IF small
                      THEN DirectOrder(s, "small_position", quantity, available, TRUE)
                      ELSE /\ xq # None
                           /\ DirectOrder(s, "execute_order", xq, available, TRUE)
           /\ step' = Stepped("interrupt", s, "KeyboardInterrupt", TRUE, limit, "none")
    /\ saved' = last_trade_time
    /\ pc' = "stopped"
    /\ prev' = open_positions
    /\ UNCHANGED <<riskVars, account_balance, open_positions, last_trade_time,
                   market_info, price, trade, avg_entry, symbols, cursor, ticks,
                   removed>>

NextTick ==
    \/ ValidateOpenPositions
    \/ CheckPriceDrops
    \/ UpdateAccountState
    \/ CleanupDustPositions
    \/ HandleStrandedPositions
    \/ RunStrategies
    \/ Sleep
    \/ Shutdown
    \/ Startup
    \/ Deposit
    \/ PriceMove
    \/ Interrupt

SpecTick == InitTick /\ [][NextTick]_vars

-----------------------------------------------------------------------------
(* The retried exchange calls, BinanceAPI.get_account_balance and          *)
(* BinanceAPI.get_klines, on their own: a caller makes up to MaxCalls of   *)
(* them in a row; the exchange answers every attempt as it likes.          *)

MaxCalls == 4           \* retried calls explored in a row

max_attempts == 3       \* for attempt in range(3)
retry_delay == 5        \* BinanceAPI.retry_delay, seconds

RetriedCalls == { "get_account_balance", "get_klines" }

(* what the call returns after the loop, and from inside the try *)
failure_value(f) == IF f = "get_account_balance" THEN "{}" ELSE "None"
success_value(f) == IF f = "get_account_balance" THEN "balances" ELSE "candles"

loop_continues_always(a) == TRUE

(* for attempt in range(3): another iteration follows a attempts *)
loop_continues(a) == a < max_attempts

Calling(f) == Stepped(f, "none", "pending", FALSE, "none", "none")

InitRetry ==
    /\ now = 0
    /\ risk = RiskInit(now)
    /\ call = NoCall
    /\ recAt = None
    /\ account_balance = 0
    /\ open_positions = EmptyMap
    /\ last_trade_time = EmptyMap
    /\ market_info = [ s \in Symbols |-> IdleRules(s) ]
    /\ price = [ s \in Symbols |-> 1 ]
    /\ free = [ s \in Symbols |-> 0 ]
    /\ orders = << >>
    /\ trade = NoTrade
    /\ saved = EmptyMap
    /\ avg_entry = [ s \in Symbols |-> 1 ]
    /\ symbols = << >>
    /\ pc = "calling"
    /\ cursor = 1
    /\ ticks = 0
    /\ prev = EmptyMap
    /\ removed = {}
    /\ \E f \in RetriedCalls : step = Calling(f)
    /\ attempt = 0

(* One iteration of the loop: the client call returns, and the function    *)
(* returns its result, or the call raises, and the except clause logs,     *)
(* alerts and sleeps retry_delay.                                          *)
AttemptCall ==
    /\ pc = "calling"
    /\ loop_continues(attempt)
    /\ attempt' = attempt + 1
    /\ \E ok \in BOOLEAN :
          IF ok
          THEN /\ pc' = "returned"
               /\ step' = [ step EXCEPT !.outcome = success_value(step.op),
                                        !.fetched = TRUE ]
               /\ UNCHANGED now
          ELSE /\ now' = now + retry_delay
               /\ UNCHANGED <<pc, step>>
    /\ UNCHANGED <<risk, call, recAt, botVars, cursor, ticks, prev, removed>>

(* The loop is exhausted: return {} or return None. *)
GiveUp ==
    /\ pc = "calling"
    /\ ~loop_continues(attempt)
    /\ pc' = "returned"
    /\ step' = [ step EXCEPT !.outcome = failure_value(step.op) ]
    /\ UNCHANGED <<riskVars, botVars, cursor, ticks, prev, removed, attempt>>

(* The caller goes on with what it got and makes its next retried call. *)
NextCall ==
    /\ pc = "returned"
    /\ cursor < MaxCalls
    /\ cursor' = cursor + 1
    /\ pc' = "calling"
    /\ attempt' = 0
    /\ \E f \in RetriedCalls : step' = Calling(f)
    /\ UNCHANGED <<riskVars, botVars, ticks, prev, removed>>

NextRetry == AttemptCall \/ GiveUp \/ NextCall

(* Every client call ends (the HTTP client has a request timeout) and the  *)
(* single thread then takes the next statement of the loop.                *)
SpecRetry ==
    InitRetry /\ [][NextRetry]_vars /\ WF_vars(AttemptCall) /\ WF_vars(GiveUp)

-----------------------------------------------------------------------------
(* The exit check on its own: _run_strategies meets a tracked position     *)
(* whose entry price is 200 at prices around the two limits.               *)

ExitEntries == { 200 }
ExitPrices == { 100, 190, 197, 198, 199, 200, 201, 205, 206, 207, 220 }
ExitFrees == { 40000, 1234000 }

InitExit ==
    /\ now = 58 * 3600
    /\ risk = RiskInit(now)
    /\ call = NoCall
    /\ recAt = None
    /\ account_balance \in AccountBalances
    /\ last_trade_time = EmptyMap
    /\ orders = << >>
    /\ trade = NoTrade
    /\ saved = EmptyMap
    /\ \E a \in TickSymbols :
        /\ symbols = <<a>>
        /\ \E r \in ApiRules(a) :
              market_info = [ s \in Symbols |-> IF s = a THEN r ELSE IdleRules(s) ]
        /\ \E p \in ExitPrices :
              price = [ s \in Symbols |-> IF s = a THEN p ELSE 0 ]
        /\ \E f \in ExitFrees :
              /\ free = [ s \in Symbols |-> IF s = a THEN f ELSE 0 ]
              /\ \E e \in ExitEntries :
                    /\ avg_entry = [ s \in Symbols |-> IF s = a THEN e ELSE 0 ]
                    /\ open_positions = (a :> BalancePosition(f, e))
    /\ pc = "strategies"
    /\ cursor = 1
    /\ ticks = 0
    /\ prev = open_positions
    /\ removed = {}
    /\ step = NoStep
    /\ attempt = 0

NextExit == RunStrategies

SpecExit == InitExit /\ [][NextExit]_vars

-----------------------------------------------------------------------------
(* The specification's side of the comparison *)

RISK_PER_TRADE_PCT == 2         \* Config.RISK_PER_TRADE (0.02), in percent
MaxPositionPct == 10            \* the cap of a BUY: 10% of the balance

(* The cooldown the specification states:                                  *)
(* base * (1 + 0.5 * max(0, losses - 1)) from two consecutive losses on.   *)
SpecCooldown(losses) ==
    IF losses >= 2 THEN (cooldown_period * (1 + losses)) \div 2
    ELSE cooldown_period

(* The BUY quantity the specification states: the risk amount over the     *)
(* price floored to the step, raised to minQty, then raised to the         *)
(* smallest step multiple that reaches minNotional.                        *)
SpecBuyQuantity(balance, pct, p, mi) ==
    LET capped == IF pct < MaxPositionPct THEN pct ELSE MaxPositionPct
        raw == (balance * capped * (QtyScale \div 100)) \div p
        floored == (raw \div mi.stepSize) * mi.stepSize
        q1 == IF floored < mi.minQty THEN mi.minQty ELSE floored
        steps == (mi.minNotional * QtyScale + p * mi.stepSize - 1)
                     \div (p * mi.stepSize)
        q2 == IF q1 * p < mi.minNotional * QtyScale THEN steps * mi.stepSize
              ELSE q1
    IN  IF q2 < mi.minQty THEN mi.minQty ELSE q2

(* The notional of q at price p is below the fraction num/den of minNotional. *)
NotionalBelow(q, p, mi, num, den) ==
    q * p * den < mi.minNotional * QtyScale * num

(* C1: whenever dailyTrades >= maxDailyTrades after the daily reset has    *)
(* been applied, can_trade returns False.                                  *)
C1_DailyLimitBlocks ==
    (call.op = "can_trade" /\ risk.daily_trades >= max_daily_trades)
        => call.ret = "False"

(* C2: can_trade returns False whenever dailyPnLPct <= -maxDrawdownPct*100 *)
(* (with the other gates open or not), and the drawdown gate is evaluated  *)
(* anew at every call: with dailyPnLPct above the threshold it is never    *)
(* the gate that blocks.                                                   *)
C2_DrawdownBlocks ==
    /\ (call.op = "can_trade" /\ risk.daily_pnl <= -max_drawdown_pct100)
           => call.ret = "False"
    /\ (call.op = "can_trade" /\ risk.daily_pnl > -max_drawdown_pct100)
           => call.gate # "drawdown"

(* C3: after a record_trade at time t, every can_trade call made before    *)
(* t + cooldown returns False, also when a calendar-day boundary lies      *)
(* between the two.                                                        *)
C3_CooldownBlocks ==
    (/\ call.op = "can_trade"
     /\ recAt # None
     /\ now - recAt < SpecCooldown(risk.consecutive_losses))
        => call.ret = "False"

(* C4: can_trade returns True whenever the cooldown since the last         *)
(* record_trade has elapsed, dailyTrades < maxDailyTrades and dailyPnLPct  *)
(* is above the drawdown threshold, at any time of day and on any weekday. *)
C4_OpenGatesAllow ==
    (/\ call.op = "can_trade"
     /\ recAt = None \/ now - recAt >= SpecCooldown(risk.consecutive_losses)
     /\ risk.daily_trades < max_daily_trades
     /\ risk.daily_pnl > -max_drawdown_pct100)
        => call.ret = "True"

(* C5: the cooldown can_trade enforces is                                  *)
(* base * (1 + 0.5 * max(0, losses - 1)) when consecutiveLosses >= 2 and   *)
(* the base otherwise; with a base of 1800 s and three consecutive losses  *)
(* it is 3600 s.                                                           *)
C5_CooldownFormula ==
    /\ base_cooldown(risk) = SpecCooldown(risk.consecutive_losses)
    /\ risk.consecutive_losses = 3 => base_cooldown(risk) = 3600

(* C6: every quantity handed to client.create_order, through execute_order *)
(* or through the small-position branch of _execute_trade, is a whole      *)
(* multiple of the symbol's stepSize and at least its minQty.              *)
C6_OrdersOnStepGrid ==
    \A i \in DOMAIN orders :
        /\ orders[i].quantity % orders[i].rules.stepSize = 0
        /\ orders[i].quantity >= orders[i].rules.minQty

(* C7: every SELL quantity is rounded toward zero and never exceeds the    *)
(* available balance; for a normal close it is                             *)
(* floor(available * (1 - fee), stepSize).                                 *)
C7_SellWithinAvailable ==
    \A i \in DOMAIN orders :
        LET o == orders[i]
        IN  o.side = "SELL" =>
              /\ o.quantity <= o.available
              /\ ~o.emergency =>
                    o.quantity = (((o.available * FeeKeepPerMille) \div 1000)
                                     \div o.rules.stepSize) * o.rules.stepSize

(* C8: a BUY is sized as floor(min(balance*risk, balance*cap)/price, step) *)
(* raised to minQty and to minNotional, and nothing else; with a balance   *)
(* of 1000, a price of 50000, minQty = stepSize = 0.00001 and              *)
(* minNotional = 10 the BUY produces an accepted order.                    *)
C8_BuySizedFromRisk ==
    (/\ trade.op = "execute_trade" /\ trade.signal = "BUY"
     /\ price[trade.symbol] > 0
     /\ market_info[trade.symbol].hasAssets)
        => /\ trade.quantity =
                 SpecBuyQuantity(account_balance, RISK_PER_TRADE_PCT,
                                 price[trade.symbol], market_info[trade.symbol])
           /\ (trade.symbol = "BTCUSDT" /\ account_balance = 1000) => trade.sent

(* C9: a normal SELL of a tracked position whose sized notional is at      *)
(* least 20% of minNotional and below minNotional submits no order; an     *)
(* order below minNotional is only attempted for a tracked position when   *)
(* the notional is below 20% of minNotional.                               *)
C9_NoOrderBetweenDustAndMin ==
    \A i \in DOMAIN orders :
        LET o == orders[i]
        IN  (o.tracked /\ ~o.emergency
                /\ NotionalBelow(o.quantity, o.price, o.rules, 1, 1))
                => NotionalBelow(o.quantity, o.price, o.rules, 1, 5)

(* C10: when the sizing of an execution fails (nothing available, a        *)
(* quantity below minQty, or a notional below minNotional outside the      *)
(* dust-closure case), no order is submitted and the ledger, the risk      *)
(* state and the last-trade time stamps are unchanged.                     *)
C10_SizingFailureLeavesNoTrace ==
    (/\ trade.op = "execute_trade" /\ trade.signal = "SELL"
     /\ trade.available # None
     /\ \/ trade.available <= 0
        \/ /\ trade.quantity # None
           /\ \/ trade.quantity < market_info[trade.symbol].minQty
              \/ /\ ~trade.emergency
                 /\ NotionalBelow(trade.quantity, price[trade.symbol],
                                  market_info[trade.symbol], 1, 1)
                 /\ ~(trade.tracked
                        /\ NotionalBelow(trade.quantity, price[trade.symbol],
                                         market_info[trade.symbol], 1, 5)))
        => ~trade.sent /\ ~trade.changed

(* C11: a BUY order is submitted only for a symbol without a tracked       *)
(* position; a strategy SELL for a symbol with an open position is handed  *)
(* to the execution; and a tracked position comes into being only through  *)
(* a filled BUY for a symbol that had none.                                *)
C11_PositionsOnlyFromBuyFills ==
    /\ \A i \in DOMAIN orders : orders[i].side = "BUY" => ~orders[i].tracked
    /\ (/\ step.op = "strategy" /\ step.signal = "SELL"
        /\ step.limit = "none"
        /\ step.symbol \in DOMAIN prev
        /\ step.outcome \notin { "skipped: traded recently", "insufficient data" })
           => step.outcome = "executed"
    /\ \A s \in (DOMAIN open_positions) \ (DOMAIN prev) :
          \E i \in DOMAIN orders :
              /\ orders[i].symbol = s /\ orders[i].side = "BUY"
              /\ orders[i].filled /\ orders[i].at = now

(* C12: _validate_open_positions, given a fetched balance map, leaves no   *)
(* tracked position whose asset has a zero balance, and a position it      *)
(* removed for that reason is not in the ledger again until a BUY for the  *)
(* symbol is filled.                                                       *)
C12_PhantomStaysRemoved ==
    /\ (step.op = "validate" /\ step.fetched)
           => \A s \in DOMAIN open_positions : get_account_balance(free, s) > 0
    /\ \A s \in removed :
          \/ s \notin DOMAIN open_positions
          \/ \E i \in DOMAIN orders :
                orders[i].symbol = s /\ orders[i].side = "BUY" /\ orders[i].filled

(* A quantity within 1% of another, relative to the larger of the two. *)
Within1Pct(x, y) ==
    IF x >= y THEN (x - y) * 100 <= x ELSE (y - x) * 100 <= y

(* C13: right after a reconcile pass whose balance fetch succeeded, every  *)
(* tracked quantity is within 1% of the balance the exchange reports for   *)
(* its asset; a quantity that was already within 1% is left as it was, and *)
(* one that was further away has been overwritten with the balance.        *)
C13_ReconcileWithinTolerance ==
    (step.op = "validate" /\ step.fetched) =>
        \A s \in DOMAIN open_positions :
            LET actual == get_account_balance(free, s)
                before == prev[s].quantity
                after == open_positions[s].quantity
            IN  /\ s \in DOMAIN prev
                /\ Within1Pct(after, actual)
                /\ Within1Pct(before, actual) => after = before
                /\ ~Within1Pct(before, actual) => after = actual

(* A reconcile pass has overwritten a tracked quantity with the balance. *)
C13_QuantityOverwritten ==
    /\ step.op = "validate" /\ step.fetched
    /\ \E s \in DOMAIN open_positions :
          /\ s \in DOMAIN prev
          /\ open_positions[s].quantity # prev[s].quantity
          /\ open_positions[s].quantity = get_account_balance(free, s)

(* C14: the fields of a position that stays in the ledger (quantity, entry *)
(* price, entry time, dust and stranded marks) change only in the          *)
(* reconcile pass or in a step that has just had an order of its symbol    *)
(* filled; the account-state refresh and every other step leave them as    *)
(* they were.                                                              *)
C14_FieldsChangeOnlyInReconcileOrFill ==
    \A s \in (DOMAIN prev) \cap (DOMAIN open_positions) :
        open_positions[s] # prev[s] =>
            \/ step.op = "validate"
            \/ /\ step.op \in { "drops", "dust", "stranded", "strategy" }
               /\ \E i \in DOMAIN orders :
                     /\ orders[i].symbol = s /\ orders[i].filled
                     /\ orders[i].at = now

(* The balance floored to a whole number of steps. *)
StepFloor(available, mi) == (available \div mi.stepSize) * mi.stepSize

(* C15: when the exit check finds a long position at or below its          *)
(* stop-loss threshold and the balance holds at least one step, a market   *)
(* SELL is submitted at once, with no minimum-size gate; and every         *)
(* stop-loss order sells the available balance floored to the step.        *)
C15_StopLossSellsStepFlooredBalance ==
    /\ (step.op = "strategy" /\ step.limit = "stop_loss" /\ step.fetched)
           => \/ \E i \in DOMAIN orders :
                    /\ orders[i].via = "stop_loss" /\ orders[i].symbol = step.symbol
                    /\ orders[i].at = now
              \/ StepFloor(get_account_balance(free, step.symbol),
                           market_info[step.symbol]) = 0
    /\ \A i \in DOMAIN orders :
          orders[i].via = "stop_loss" =>
              orders[i].quantity = StepFloor(orders[i].available, orders[i].rules)

(* An order smaller than the symbol's minimum quantity or minimum notional. *)
BelowMinimums(o) ==
    \/ o.quantity < o.rules.minQty
    \/ o.quantity * o.price < o.rules.minNotional * QtyScale

(* C16: an emergency sale carries the whole available balance floored to   *)
(* the step; and apart from stop-loss sales, an order below the symbol's   *)
(* minimum quantity or notional is submitted only for a position that has  *)
(* fallen more than 50% from its entry.                                    *)
C16_OnlyExtremeDropSkipsMinimums ==
    /\ \A i \in DOMAIN orders :
          orders[i].via = "emergency_sale" =>
              orders[i].quantity = StepFloor(orders[i].available, orders[i].rules)
    /\ \A i \in DOMAIN orders :
          (/\ orders[i].side = "SELL" /\ orders[i].via # "stop_loss"
           /\ BelowMinimums(orders[i]))
              => orders[i].via = "emergency_sale"

(* The symbol's recorded last trade is less than 24 hours old. *)
TradedWithinDay(s) ==
    s \in DOMAIN last_trade_time /\ now - last_trade_time[s] < 24 * 3600

ExitFilled ==
    /\ step.op = "strategy" /\ step.limit \in { "stop_loss", "take_profit" }
    /\ orders # << >>
    /\ LET o == orders[Len(orders)]
       IN  /\ o.symbol = step.symbol /\ o.at = now /\ o.filled /\ o.tracked
           /\ o.symbol \in DOMAIN prev
           /\ step.limit = "stop_loss" => o.via = "stop_loss"
           /\ step.limit = "take_profit" => o.via \in { "execute_order", "small_position" }

(* C18: once an exit order of a tracked position is filled, and before the *)
(* next symbol is looked at, the position is reduced or closed in the      *)
(* ledger, record_trade has been called, and the symbol's last-trade time  *)
(* is the fill time, in memory and in the persisted map.                   *)
C18_FillIsRecorded ==
    ExitFilled =>
        LET s == step.symbol
        IN  /\ \/ s \notin DOMAIN open_positions
               \/ open_positions[s].quantity < prev[s].quantity
               \/ open_positions[s].dust
            /\ recAt = now
            /\ s \in DOMAIN last_trade_time /\ last_trade_time[s] = now
            /\ s \in DOMAIN saved /\ saved[s] = now

(* C19: when the bot has started again, its in-memory last-trade map is    *)
(* the map that was last written to state/last_trades.json.                *)
C19_LastTradesSurviveRestart ==
    step.op = "startup" => last_trade_time = saved

(* classifyDust: the position's value is below max($1, 20% of minNotional). *)
SpecDust(pos, p, mi) ==
    pos.quantity * p * 5 <
        (IF mi.minNotional > 5 THEN mi.minNotional ELSE 5) * QtyScale

(* C20: the dust cleanup of a cycle removes a priced position from the     *)
(* ledger exactly when its value is below max($1, 20% of minNotional); a   *)
(* position at or above that value is kept.                                *)
C20_DustRemovedIffBelowThreshold ==
    step.op = "dust" =>
        \A s \in DOMAIN prev :
            price[s] # 0 =>
                (s \notin DOMAIN open_positions
                    <=> SpecDust(prev[s], price[s], market_info[s]))

(* The position is worth more than $1 at the current price. *)
AboveFloor(pos, p) == pos.quantity * p > 1 * QtyScale

C22_StrandedStaysParked ==
    (/\ trade.op = "execute_trade" /\ trade.signal = "SELL" /\ trade.tracked
     /\ trade.outcome = "ValueError: below minQty"
     /\ price[trade.symbol] # 0
     /\ get_account_balance(free, trade.symbol) * price[trade.symbol] * 10
            < market_info[trade.symbol].minNotional * 8 * QtyScale)
        => /\ trade.symbol \in DOMAIN open_positions
           /\ open_positions[trade.symbol].stranded

(* C23: a can_trade call made on a date other than last_reset zeroes       *)
(* daily_trades and daily_pnl and sets last_reset to the current date; a   *)
(* call made on the date of last_reset leaves the two counters alone; and  *)
(* no other step moves last_reset or zeroes the counters.                  *)
C23_DailyResetOncePerDay ==
    [][ /\ CanTrade =>
             /\ risk'.last_reset = Date(now)
             /\ Date(now) # risk.last_reset
                    => risk'.daily_trades = 0 /\ risk'.daily_pnl = 0
             /\ Date(now) = risk.last_reset
                    => /\ risk'.daily_trades = risk.daily_trades
                       /\ risk'.daily_pnl = risk.daily_pnl
        /\ ~CanTrade =>
             /\ risk'.last_reset = risk.last_reset
             /\ risk'.daily_trades >= risk.daily_trades
      ]_vars

(* can_trade has just reset the daily counters of a manager that had       *)
(* recorded trades on the day before.                                      *)
C23_CountersReset ==
    /\ call.op = "can_trade"
    /\ risk.total_trades > 0 /\ risk.daily_trades = 0
    /\ risk.last_reset = Date(now)

(* C24: no step lowers peak_balance or max_drawdown_pct, and after a       *)
(* record_trade call peak_balance is at least the balance passed to it.    *)
C24_PeakNeverFalls ==
    [][ /\ risk'.peak_balance >= risk.peak_balance
        /\ risk'.max_drawdown_pct >= risk.max_drawdown_pct
        /\ \A b \in Balances :
              (\E side \in {"BUY", "SELL"}, o \in TradeOutcomes :
                  risk' = record_trade(risk, now, side, o[1], o[2], b))
                  => risk'.peak_balance >= b
      ]_vars

(* A trade was recorded with a balance below the peak, and the peak held. *)
C24_PeakHeldAboveBalance ==
    /\ call.op = "record_trade"
    /\ risk.trade_history # << >>
    /\ risk.trade_history[Len(risk.trade_history)].balance < risk.peak_balance
    /\ risk.max_drawdown_pct > 0

(* C25: while only opening (BUY) trades have been recorded, every one of   *)
(* them has been counted, has advanced last_trade_time and has appended a  *)
(* zero-PnL record, and the PnL sums and the streak counters are still     *)
(* zero.                                                                   *)
C25_OpeningTradeRecorded ==
    (/\ call.op = "record_trade"
     /\ risk.winning_trades = 0 /\ risk.losing_trades = 0) =>
        /\ risk.total_trades >= 1 /\ risk.daily_trades >= 1
        /\ risk.last_trade_time = now
        /\ Len(risk.trade_history) = risk.total_trades
        /\ \A i \in DOMAIN risk.trade_history :
              /\ risk.trade_history[i].side = "BUY"
              /\ risk.trade_history[i].pnl_usd = 0
              /\ risk.trade_history[i].pnl_pct = 0
        /\ risk.daily_pnl = 0 /\ risk.total_pnl = 0
        /\ risk.consecutive_wins = 0 /\ risk.consecutive_losses = 0
        /\ risk.max_consecutive_wins = 0 /\ risk.max_consecutive_losses = 0

ExitRejected ==
    /\ step.op = "strategy" /\ step.limit \in { "stop_loss", "take_profit" }
    /\ orders # << >>
    /\ LET o == orders[Len(orders)]
       IN  /\ o.symbol = step.symbol /\ o.at = now /\ ~o.filled /\ o.tracked
           /\ step.limit = "stop_loss" => o.via = "stop_loss"
           /\ step.limit = "take_profit" => o.via \in { "execute_order", "small_position" }

(* C27: when the exchange refuses an order, the tracked position is left   *)
(* as it was, neither removed nor changed, and no trade is recorded.       *)
C27_RejectionLeavesPosition ==
    ExitRejected =>
        /\ step.symbol \in DOMAIN prev
        /\ step.symbol \in DOMAIN open_positions
        /\ open_positions[step.symbol] = prev[step.symbol]
        /\ recAt # now

(* C28: an unexpected failure while one symbol is processed, in any of the *)
(* per-symbol steps of a cycle (extreme price-drop check, exit check,      *)
(* stranded retry, signal evaluation, order submission), is contained at   *)
(* that symbol: the cycle goes on and the main loop keeps running.         *)
C28_FailureContainedAtSymbol ==
    (step.op \in { "drops", "stranded", "strategy" }
        /\ step.outcome = "ZeroDivisionError")
    => pc # "stopped"

(* C29: a failing alert or logging call after a fill does not abort the    *)
(* bookkeeping of the trade.  After a filled stop-loss order the position  *)
(* has left the ledger and record_trade has run; after a filled order of   *)
(* _execute_trade for a tracked position record_trade has run, the         *)
(* position is reduced or closed, and the last-trade time is the fill time. *)
C29_AlertFailureKeepsBookkeeping ==
    \A i \in DOMAIN orders :
        LET o == orders[i]
            s == o.symbol
        IN  ( /\ i = Len(orders) /\ o.filled /\ o.tracked /\ o.at = now
              /\ step.op = "strategy" /\ step.symbol = s /\ s \in DOMAIN prev )
            => /\ o.via = "stop_loss" =>
                      /\ s \notin DOMAIN open_positions
                      /\ recAt = now
               /\ o.via \in { "execute_order", "small_position" } =>
                      /\ recAt = now
                      /\ \/ s \notin DOMAIN open_positions
                         \/ open_positions[s].quantity < prev[s].quantity
                         \/ open_positions[s].dust
                      /\ s \in DOMAIN last_trade_time /\ last_trade_time[s] = now

(* The stop-loss / take-profit check of the current cycle has been made    *)
(* for symbol s: _run_strategies, which holds the only call of             *)
(* _check_position_limits, has gone past s in this cycle.                  *)
ExitCheckEvaluated(s) ==
    /\ pc \in { "strategies", "sleep" }
    /\ \E i \in 1..(cursor - 1) : i <= Len(symbols) /\ symbols[i] = s

(* C30: the steps of a cycle run in the order reconcile, exit checks, dust *)
(* cleanup, stranded retry, market data, signal evaluation; in particular a *)
(* position that the dust cleanup has just removed had its stop-loss /     *)
(* take-profit check of this cycle evaluated before.                       *)
C30_ExitCheckBeforeDustRemoval ==
    ( /\ step.op = "dust" /\ step.symbol # "none"
      /\ step.symbol \in DOMAIN prev
      /\ step.symbol \notin DOMAIN open_positions )
    => ExitCheckEvaluated(step.symbol)

(* The loop has ended: by KeyboardInterrupt during the sleep or inside a   *)
(* symbol's processing, or by an error that reached run's except clause.   *)
LoopTerminated ==
    /\ pc = "stopped"
    /\ \/ step.op \in { "shutdown", "interrupt" }
       \/ step.op = "drops" /\ step.outcome = "ZeroDivisionError"

(* C31: whenever the main loop terminates, the last-trade map has been     *)
(* persisted; and an interrupt lets the symbol in progress finish, so an   *)
(* exit order filled at the moment of the interrupt has its bookkeeping    *)
(* (record_trade and the ledger update).                                   *)
C31_ShutdownPersistsAndFinishesSymbol ==
    LoopTerminated =>
        /\ saved = last_trade_time
        /\ \A i \in DOMAIN orders :
              ( /\ i = Len(orders) /\ orders[i].at = now /\ orders[i].filled
                /\ orders[i].tracked /\ step.op = "interrupt"
                /\ orders[i].symbol = step.symbol )
              => /\ recAt = now
                 /\ \/ step.symbol \notin DOMAIN open_positions
                    \/ open_positions[step.symbol] # prev[step.symbol]

SpecMaxAttempts == 3

(* C32: a retried exchange call makes at most three attempts, makes no     *)
(* attempt after one has succeeded, returns its failure value only after   *)
(* the third failure, and always returns, so the caller goes on.           *)
C32_RetriedCallsBounded ==
    /\ [][ /\ attempt' <= SpecMaxAttempts
           /\ attempt' > attempt =>
                  /\ pc = "calling" /\ ~step.fetched
                  /\ attempt' = attempt + 1
           /\ (pc = "calling" /\ pc' = "returned") =>
                  IF step'.fetched
                  THEN /\ step'.outcome = success_value(step.op)
                       /\ attempt' = attempt + 1
                  ELSE /\ step'.outcome = failure_value(step.op)
                       /\ attempt' = SpecMaxAttempts
                       /\ now' = now
         ]_vars
    /\ (pc = "calling" ~> pc = "returned")

C32_GaveUpAfterThirdFailure ==
    /\ pc = "returned" /\ ~step.fetched /\ attempt = SpecMaxAttempts
    /\ step.outcome \in { "{}", "None" }
    /\ cursor > 1

(* C33: record_trade is atomic for the RiskManager: the number of trades   *)
(* counted always equals the number of records in trade_history (a call    *)
(* applies the counters together with its appended record, or nothing).    *)
C33_RecordTradeAtomic ==
    risk.total_trades = Len(risk.trade_history)

(* C34: a balance lookup that failed (get_account_balance gave up and      *)
(* returned {}) destroys nothing: the reconciliation and the account       *)
(* refresh that read it leave every tracked position in place with its     *)
(* quantity.                                                               *)
C34_FailedLookupKeepsLedger ==
    (step.op \in { "validate", "refresh" } /\ ~step.fetched)
    => \A s \in DOMAIN prev :
          /\ s \in DOMAIN open_positions
          /\ open_positions[s].quantity = prev[s].quantity

(* The smallest quantity that reaches minQty and minNotional at price p. *)
SpecMinimumQuantity(mi, p) ==
    LET up == (mi.minNotional * QtyScale + p - 1) \div p
    IN  IF up > mi.minQty THEN up ELSE mi.minQty

ClosingPaths == { "execute_order", "small_position", "stop_loss", "emergency_sale" }

(* C36: when a step of the cycle has had a closing order of a tracked      *)
(* position filled (by _execute_trade, the stop-loss handler or the        *)
(* emergency sale), the handler has recorded it with record_trade and the  *)
(* position is no longer tracked at the quantity it had; record_trade has  *)
(* no other caller that could make up for it later in the cycle.           *)
C36_EveryFilledCloseRecorded ==
    \A i \in DOMAIN orders :
        LET o == orders[i]
        IN  ( /\ i = Len(orders) /\ o.at = now /\ o.filled /\ o.tracked
              /\ o.via \in ClosingPaths
              /\ step.op \in { "drops", "stranded", "strategy" }
              /\ step.symbol = o.symbol /\ o.symbol \in DOMAIN prev )
            => /\ recAt = now
               /\ \/ o.symbol \notin DOMAIN open_positions
                  \/ open_positions[o.symbol].quantity < prev[o.symbol].quantity

(* C37: when can_trade is evaluated, the daily counters cover the trades   *)
(* recorded on the current date: a trade recorded today, also one recorded *)
(* after midnight and before the day's first can_trade, is counted.        *)
C37_DailyCountersCoverToday ==
    ( /\ call.op = "can_trade"
      /\ recAt # None /\ Date(recAt) = Date(now) )
    => risk.daily_trades >= 1

C39_RulesTotalOnEveryPath ==
    trade.op = "execute_trade" =>
        /\ market_info[trade.symbol].hasAssets
        /\ trade.outcome # "KeyError: baseAsset"

SpecStopLossPermille == 15      \* stopLossPct: 1.5 %
SpecTakeProfitPermille == 30    \* takeProfitPct: 3 %

(* pnlPct of the position the last strategy step looked at lies strictly   *)
(* between -stopLossPct and takeProfitPct.                                 *)
WithinLimits(s) ==
    LET e == prev[s].entry_price
        p == price[s]
    IN  /\ e > 0 /\ p > 0
        /\ (p - e) * 1000 > -SpecStopLossPermille * e
        /\ (p - e) * 1000 < SpecTakeProfitPermille * e

(* C40: the exit check sends no order for a position whose pnlPct lies     *)
(* strictly between -stopLossPct and takeProfitPct; at or above            *)
(* takeProfitPct the close goes through the sizer of _execute_trade; and   *)
(* one exit check hands at most one order to the exchange.                 *)
C40_NoExitWithinLimits ==
    (step.op = "strategy" /\ step.symbol \in DOMAIN prev) =>
        /\ WithinLimits(step.symbol) => orders = << >>
        /\ Len(orders) <= 1
        /\ \A i \in DOMAIN orders :
              step.limit = "take_profit" =>
                  orders[i].via \in { "execute_order", "small_position" }

====
